---- MODULE Spec2Model ----
(***************************************************************************)
(* The aggregation expression tree of elasticsearch_dsl/aggs.py: the node  *)
(* factory A(), the container protocol of AggBase/Bucket and the           *)
(* serializer to_dict(), over a heap of node objects with identity.        *)
(***************************************************************************)
EXTENDS Integers, Sequences, FiniteSets, TLC

VARIABLES
    heap,   \* heap[i]: the Agg instance with identity i: class name, _params, _base
    dicts,  \* dicts[d]: the dict object d of a typed `aggs` parameter: <<name, id>> items
    last,   \* the call the caller made last: its arguments and its outcome
    chain,  \* the method chain that call belongs to: where it started, how deep
    opened, \* the last copy-on-read of a bucket child and what was done to the copy
    nset,   \* the number of b[name] = node assignments the caller has made
    wire,   \* the mapping object the caller built from: its value then and now
    view    \* the result view the last agg.result(search, data) call made

vars == <<heap, dicts, last, chain, opened, nset, wire, view>>

\* ------------------------------------------------------------------ bounds
MaxObj == 4      \* Agg instances ever allocated in one behaviour
MaxDict == 5     \* aggs dict objects ever allocated in one behaviour
MaxSets == 1     \* b[name] = node assignments in one behaviour

\* ------------------------------------------------------------------ values
\* Python values a parameter can hold, tagged by their type.
None == [t |-> "none"]
Str(s) == [t |-> "str", v |-> s]
\* a plain dict (wire-format mapping): an ordered sequence of <<key, value>>
Obj(items) == [t |-> "obj", v |-> items]
\* a reference to the Agg instance heap[i]
Ref(i) == [t |-> "agg", v |-> i]
\* a reference to the dict object dicts[d] (name -> Agg instance)
Hash(d) == [t |-> "hash", v |-> d]
\* a Query instance of the query subsystem; its to_dict() is the mapping v
Query(items) == [t |-> "query", v |-> items]

\* ------------------------------------------------------- ordered dict (dict)
Keys(items) == {items[i][1] : i \in 1..Len(items)}

HasKey(items, k) == \E i \in 1..Len(items) : items[i][1] = k

IndexOf(items, k) == CHOOSE i \in 1..Len(items) : items[i][1] = k

Get(items, k) == items[IndexOf(items, k)][2]

\* d[k] = v: an existing key keeps its position, a new key goes last
Put(items, k, v) ==
    IF HasKey(items, k)
    THEN [items EXCEPT ![IndexOf(items, k)] = <<k, v>>]
    ELSE Append(items, <<k, v>>)

\* d.pop(k, default) leaves this behind
Del(items, k) == SelectSeq(items, LAMBDA it : it[1] # k)

\* d.pop(k, None) returns this
PopOf(items, k) == IF HasKey(items, k) THEN Get(items, k) ELSE None

RECURSIVE Update(_, _)
\* d.update(other)
Update(items, other) ==
    IF other = <<>> THEN items
    ELSE Update(Put(items, other[1][1], other[1][2]), Tail(other))

\* bool(value) as `if aggs:` / `if meta:` take it
Truthy(val) ==
    CASE val.t = "none" -> FALSE
      [] val.t = "obj" -> val.v # <<>>
      [] val.t = "str" -> val.v # ""
      [] OTHER -> TRUE

\* ---------------------------------------------------------------- registry
\* the `name` of every class statement of aggs.py, by the base class it has
BucketKinds ==
    {"filter", "filters", "children", "parent", "date_histogram",
     "auto_date_histogram", "adjacency_matrix", "date_range", "geo_distance",
     "geohash_grid", "geohex_grid", "geotile_grid", "geo_centroid", "global",
     "histogram", "ip_range", "ip_prefix", "missing", "nested", "range",
     "rare_terms", "reverse_nested", "significant_terms", "significant_text",
     "terms", "sampler", "diversified_sampler", "random_sampler", "composite",
     "variable_width_histogram", "multi_terms", "categorize_text"}
MetricKinds ==
    {"top_hits", "avg", "weighted_avg", "cardinality", "extended_stats",
     "boxplot", "geo_bounds", "geo_line", "max", "matrix_stats",
     "median_absolute_deviation", "min", "percentiles", "percentile_ranks",
     "scripted_metric", "stats", "sum", "top_metrics", "t_test", "value_count"}
PipelineKinds ==
    {"avg_bucket", "bucket_script", "bucket_selector", "cumulative_sum",
     "cumulative_cardinality", "derivative", "extended_stats_bucket",
     "inference", "max_bucket", "min_bucket", "moving_fn", "moving_avg",
     "moving_percentiles", "normalize", "percentiles_bucket", "serial_diff",
     "stats_bucket", "sum_bucket", "bucket_sort"}
\* the bucket classes whose result() returns FieldBucketData: DateHistogram,
\* Histogram, RareTerms, Terms and VariableWidthHistogram define it, and
\* AutoDateHistogram inherits it from DateHistogram
FieldBucketKinds ==
    {"date_histogram", "auto_date_histogram", "histogram", "rare_terms",
     "terms", "variable_width_histogram"}
\* Agg._classes: the wire names the class statements of aggs.py register
Registry == BucketKinds \cup MetricKinds \cup PipelineKinds

IsBucket(h, i) == h[i].name \in BucketKinds

\* mutation: every class declares the typed aggs parameter
ParamDefsAll(kind) == IF kind = "filter" THEN {"filter", "aggs"} ELSE {"aggs"}

\* _param_defs of the class registered under kind
ParamDefs(kind) ==
    IF kind = "filter" THEN {"filter", "aggs"}
    ELSE IF kind = "filters" THEN {"filters", "aggs"}
    ELSE IF kind = "composite" THEN {"sources", "aggs"}
    ELSE IF kind \in BucketKinds THEN {"aggs"}
    ELSE {}

\* an operation's outcome: the stores after it, its return value, its exception
Ok(h, d, ret) == [heap |-> h, dicts |-> d, ret |-> ret, err |-> ""]
Raise(h, d, e) == [heap |-> h, dicts |-> d, ret |-> 0, err |-> e]

\* mutation: a tag that is not registered falls back to a generic node
GetDslClassAny(kind) == TRUE

\* DslBase.get_dsl_class: the registry lookup; a miss raises
GetDslClass(kind) == kind \in Registry

\* Q(value), the shortcut of the query subsystem: a Query instance passes
\* through, a mapping or a name becomes the Query that serializes to it
Q(value) ==
    CASE value.t = "query" -> value
      [] value.t = "obj" -> Query(value.v)
      [] OTHER -> Query(<< <<value.v, Obj(<<>>)>> >>)

\* value.items() of what is passed as a typed `aggs` parameter
ItemsOf(d, value) ==
    IF value.t = "hash"
    THEN [j \in 1..Len(d[value.v]) |-> <<d[value.v][j][1], Ref(d[value.v][j][2])>>]
    ELSE value.v

\* mutation: with no `filter` keyword the plain keywords are taken as the
\* fields of the sub-query and put into the filter slot
FilterInitAdopt(params) ==
    IF HasKey(params, "filter") \/ Del(Del(params, "aggs"), "meta") = <<>>
    THEN params
    ELSE Append(SelectSeq(params, LAMBDA it : it[1] \in {"aggs", "meta"}),
                <<"filter", Query(Del(Del(params, "aggs"), "meta"))>>)

\* Filter.__init__: a `filter` keyword is bound to the named argument and put
\* back into params (last) when it is not None
FilterInit(params) ==
    IF ~HasKey(params, "filter") THEN params
    ELSE IF Get(params, "filter").t = "none" THEN Del(params, "filter")
    ELSE Append(Del(params, "filter"), <<"filter", Get(params, "filter")>>)

\* mutation: every bucket is anchored at the first node built
BucketInitFirst(kind, self) == IF kind \in BucketKinds THEN 1 ELSE 0

\* Bucket.__init__: self._base = self (non-bucket classes have no _base)
BucketInit(kind, self) == IF kind \in BucketKinds THEN self ELSE 0

\* mutation: the keyword parameters are not looked at
ParamsGivenNever(ps) == FALSE

\* `if params:` keyword parameters came with a mapping or a node
ParamsGiven(ps) == ps # <<>>

\* mutation: only the empty mapping is refused
ShapeOkLoose(agg) == Len(agg) >= 1

\* len(agg) != 1 raises
ShapeOk(agg) == Len(agg) = 1

\* mutation: the popped entries are lost
ReattachNever(params, key, val) == params

\* mutation: only the children are put back
ReattachAggsOnly(params, key, val) ==
    IF Truthy(val) /\ key = "aggs" THEN Put(params, key, val) ELSE params

\* mutation: every entry that is present is put back (`is not None`)
ReattachPresent(params, key, val) ==
    IF val.t # "none" THEN Put(params, key, val) ELSE params

\* `if aggs:` / `if meta:`: the popped reserved entry is re-attached
Reattach(params, key, val) == IF Truthy(val) THEN Put(params, key, val) ELSE params

\* the working dict of the mapping branch when A() returns or raises: aggs
\* and meta are popped, and popitem has emptied it when the shape was right
Drained(agg) ==
    IF ShapeOk(Del(Del(agg, "aggs"), "meta")) THEN <<>>
    ELSE Del(Del(agg, "aggs"), "meta")

\* mutation: A() works on the caller's object itself
CallerSeesWork(name_or_agg, work) == Obj(work)

\* agg = deepcopy(name_or_agg): the working dict is another object, so the
\* caller's object keeps the value it had
CallerSees(name_or_agg, work) == name_or_agg

\* the caller's argument object after A(name_or_agg, filter, **params)
AfterA(name_or_agg, filter, params) ==
    IF filter.t # "none" /\ name_or_agg # Str("filter") THEN name_or_agg
    ELSE IF name_or_agg.t # "obj" THEN name_or_agg
    ELSE IF ParamsGiven(params) THEN name_or_agg
    ELSE CallerSees(name_or_agg, Drained(name_or_agg.v))

\* mutation: the positional filter is taken with every kind tag
FilterOkAnyTag(name_or_agg) == name_or_agg.t = "str"

\* `name_or_agg != "filter"` raises when a positional filter is given
FilterOk(name_or_agg) == name_or_agg = Str("filter")

\* mutation: an Agg instance passed in is cloned
PassthroughClone(h, d, agg) == Ok(Append(h, h[agg]), d, Len(h) + 1)

\* `return name_or_agg`: an Agg instance passed in is the result
Passthrough(h, d, agg) == Ok(h, d, agg)

RECURSIVE A(_, _, _, _, _)
RECURSIVE HashItems(_, _, _, _, _)
RECURSIVE SetAttrs(_, _, _, _, _, _)

\* {k: shortcut(v) for (k, v) in value.items()} with shortcut = A
HashItems(h, d, items, j, acc) ==
    IF j > Len(items) THEN Ok(h, d, acc)
    ELSE LET Then(r) ==
                 IF r.err # "" THEN r
                 ELSE HashItems(r.heap, r.dicts, items, j + 1,
                                Put(acc, items[j][1], r.ret))
         IN  Then(A(h, d, items[j][2], None, <<>>))

\* DslBase._setattr: a typed parameter is coerced through its shortcut; the
\* hash of aggs becomes a new dict object
SetAttr(h, d, kind, pname, value) ==
    IF pname \notin ParamDefs(kind) THEN Ok(h, d, value)
    ELSE IF pname = "aggs"
    THEN LET Then(r) ==
                 IF r.err # "" THEN r
                 ELSE Ok(r.heap, Append(r.dicts, r.ret), Hash(Len(r.dicts) + 1))
         IN  Then(HashItems(h, d, ItemsOf(d, value), 1, <<>>))
    ELSE Ok(h, d, Q(value))

\* DslBase.__init__: every keyword goes through _setattr, in order
SetAttrs(h, d, kind, params, j, acc) ==
    IF j > Len(params) THEN Ok(h, d, acc)
    ELSE LET Then(r) ==
                 IF r.err # "" THEN r
                 ELSE SetAttrs(r.heap, r.dicts, kind, params, j + 1,
                               Put(acc, params[j][1], r.ret))
         IN  Then(SetAttr(h, d, kind, params[j][1], params[j][2]))

\* cls(**params) for the class registered under kind: the new instance exists
\* before __init__ builds its typed parameters
New(h, d, kind, params) ==
    LET Then(self, r) ==
            IF r.err # "" THEN r
            ELSE Ok([r.heap EXCEPT ![self].params = r.ret], r.dicts, self)
    IN  Then(Len(h) + 1,
             SetAttrs(Append(h, [name |-> kind, params |-> <<>>,
                                 base |-> BucketInit(kind, Len(h) + 1)]),
                      d, kind,
                      IF kind = "filter" THEN FilterInit(params) ELSE params,
                      1, <<>>))

\* A(name_or_agg, filter, **params), the node factory
A(h, d, name_or_agg, filter, params) ==
    IF filter.t # "none" /\ ~FilterOk(name_or_agg)
    THEN Raise(h, d, "InvalidArgumentError")
    ELSE
    LET FromDict(aggs, meta, agg) ==
            IF ~ShapeOk(agg) THEN Raise(h, d, "InvalidShapeError")
            ELSE IF ~GetDslClass(agg[1][1])
            THEN Raise(h, d, "UnknownAggregationKindError")
            ELSE New(h, d, agg[1][1],
                     Reattach(Reattach(agg[1][2].v, "aggs", aggs), "meta", meta))
        Dispatch(ps) ==
            IF name_or_agg.t = "obj"
            THEN IF ParamsGiven(ps) THEN Raise(h, d, "AmbiguousInputError")
                 ELSE FromDict(PopOf(name_or_agg.v, "aggs"),
                               PopOf(name_or_agg.v, "meta"),
                               Del(Del(name_or_agg.v, "aggs"), "meta"))
            ELSE IF name_or_agg.t = "agg"
            THEN IF ParamsGiven(ps) THEN Raise(h, d, "AmbiguousInputError")
                 ELSE Passthrough(h, d, name_or_agg.v)
            ELSE IF ~GetDslClass(name_or_agg.v)
            THEN Raise(h, d, "UnknownAggregationKindError")
            ELSE New(h, d, name_or_agg.v, ps)
    IN  Dispatch(IF filter.t # "none" THEN Put(params, "filter", filter)
                 ELSE params)

\* ------------------------------------------------------------- serializer
RECURSIVE ToDict(_, _, _)
RECURSIVE HashToDict(_, _, _, _, _)
RECURSIVE ParamsToDict(_, _, _, _, _, _)

\* {k: v.to_dict() for k, v in value.items()}
HashToDict(h, d, items, j, acc) ==
    IF j > Len(items) THEN acc
    ELSE HashToDict(h, d, items, j + 1,
                    Put(acc, items[j][1], ToDict(h, d, items[j][2])))

\* DslBase.to_dict: the inner object of the kind tag
ParamsToDict(h, d, kind, params, j, acc) ==
    IF j > Len(params) THEN acc
    ELSE
    LET Item(pname, value) ==
            IF pname \in ParamDefs(kind)
            THEN IF value.t = "hash"
                 THEN IF d[value.v] = <<>> THEN acc
                      ELSE Put(acc, pname, Obj(HashToDict(h, d, d[value.v], 1, <<>>)))
                 ELSE Put(acc, pname, Obj(value.v))
            ELSE IF value.t = "agg" THEN Put(acc, pname, ToDict(h, d, value.v))
            ELSE IF value.t = "query" THEN Put(acc, pname, Obj(value.v))
            ELSE Put(acc, pname, value)
    IN  ParamsToDict(h, d, kind, params, j + 1, Item(params[j][1], params[j][2]))

DslToDict(h, d, i) ==
    << <<h[i].name, Obj(ParamsToDict(h, d, h[i].name, h[i].params, 1, <<>>))>> >>

\* mutation: meta stays inside the kind tag's own object
AggToDictInner(kind, top) == top

\* Agg.to_dict: meta moves from the inner object to a sibling key
AggToDict(kind, top) ==
    LET Hoist(n) ==
            IF HasKey(n, "meta")
            THEN Put(Put(top, kind, Obj(Del(n, "meta"))), "meta", Get(n, "meta"))
            ELSE top
    IN  Hoist(Get(top, kind).v)

\* mutation: aggs stays inside the kind tag's own object
BucketToDictInner(kind, top) == top

\* Bucket.to_dict: aggs moves from the inner object to a sibling key
BucketToDict(kind, top) ==
    LET Hoist(n) ==
            IF HasKey(n, "aggs")
            THEN Put(Put(top, kind, Obj(Del(n, "aggs"))), "aggs", Get(n, "aggs"))
            ELSE top
    IN  Hoist(Get(top, kind).v)

\* mutation: the serialized filter stays under its own key
FilterToDictNested(kind, top) == top

\* Filter.to_dict: the fields of the serialized filter are merged into the
\* inner object
FilterToDict(kind, top) ==
    LET Merge(n) ==
            Put(top, kind,
                Obj(Update(Del(n, "filter"),
                           IF HasKey(n, "filter") THEN Get(n, "filter").v ELSE <<>>)))
    IN  Merge(Get(top, kind).v)

\* self.to_dict() along the class hierarchy of heap[i]
ToDict(h, d, i) ==
    LET Up(kind, a) ==
            IF kind = "filter" THEN Obj(FilterToDict(kind, BucketToDict(kind, a)))
            ELSE IF kind \in BucketKinds THEN Obj(BucketToDict(kind, a))
            ELSE Obj(a)
    IN  Up(h[i].name, AggToDict(h[i].name, DslToDict(h, d, i)))

RECURSIVE Canon(_)
\* a mapping as Python compares it (==): by keys and values, not by order
Canon(val) ==
    IF val.t = "obj"
    THEN [t |-> "obj", v |-> [k \in Keys(val.v) |-> Canon(Get(val.v, k))]]
    ELSE val

DictEq(x, y) == Canon(x) = Canon(y)

\* ------------------------------------------------------ container protocol
\* self._params["aggs"] as a sequence of <<name, id>>; empty when there is none
Children(h, d, i) ==
    IF HasKey(h[i].params, "aggs") /\ Get(h[i].params, "aggs").t = "hash"
    THEN d[Get(h[i].params, "aggs").v]
    ELSE <<>>

\* the instance stored under key in heap[i], 0 when there is none
ChildOf(h, d, i, key) ==
    IF HasKey(Children(h, d, i), key) THEN Get(Children(h, d, i), key) ELSE 0

\* mutation: every class looks the key up in its aggs parameter
ContainsRaw(h, d, i, key) ==
    /\ HasKey(h[i].params, "aggs")
    /\ HasKey(ItemsOf(d, Get(h[i].params, "aggs")), key)

\* AggBase.__contains__ (Bucket) and Agg.__contains__ (every other class)
Contains(h, d, i, key) ==
    IF IsBucket(h, i) THEN HasKey(Children(h, d, i), key) ELSE FALSE

\* AggBase.__iter__
Iter(h, d, i) == [j \in 1..Len(Children(h, d, i)) |-> Children(h, d, i)[j][1]]

\* self._params.setdefault("aggs", {}) / DslBase.__getattr__("aggs"): a node
\* without an aggs parameter gets a new empty dict object
EnsureAggs(h, d, b) ==
    IF HasKey(h[b].params, "aggs") THEN Ok(h, d, Get(h[b].params, "aggs").v)
    ELSE Ok([h EXCEPT ![b].params = Put(@, "aggs", Hash(Len(d) + 1))],
            Append(d, <<>>), Len(d) + 1)

\* A(agg.name, filter=None, **agg._params): the call binds `filter` twice when
\* _params holds a filter, which Python refuses with a TypeError
CopyCall(h, d, agg) ==
    IF HasKey(h[agg].params, "filter") THEN Raise(h, d, "TypeError")
    ELSE A(h, d, Str(h[agg].name), None, h[agg].params)

\* mutation: the stored instance itself is handed out
CopyOnReadShared(h, d, agg) == Ok(h, d, agg)

\* isinstance(agg, Bucket): a bucket child is copied, any other is handed out
CopyOnRead(h, d, agg) ==
    IF IsBucket(h, agg) THEN CopyCall(h, d, agg) ELSE Ok(h, d, agg)

\* mutation: the copy is stored as a new last entry
StoreCopyLast(h, d, dk, agg_name, old, new) ==
    IF IsBucket(h, old)
    THEN [d EXCEPT ![dk] = Append(Del(@, agg_name), <<agg_name, new>>)]
    ELSE d

\* mutation: the copy is handed out without being stored
StoreCopyNever(h, d, dk, agg_name, old, new) == d

\* self._params["aggs"][agg_name] = agg, done for a bucket child only
StoreCopy(h, d, dk, agg_name, old, new) ==
    IF IsBucket(h, old) THEN [d EXCEPT ![dk] = Put(@, agg_name, new)] ELSE d

\* mutation: a missing name gives None instead of raising
MissingQuiet(e, agg_name) == Ok(e.heap, e.dicts, 0)

\* the subscript of a name the aggs dict does not hold raises (KeyError)
Missing(e, agg_name) == Raise(e.heap, e.dicts, "NotFoundError")

\* mutation: the copy is stored but the instance read from the dict is returned
GetItemHandsOld(h, d, b, agg_name) ==
    LET Copied(e, agg, r) ==
            IF r.err # "" THEN Raise(e.heap, e.dicts, r.err)
            ELSE Ok(r.heap, StoreCopy(r.heap, r.dicts, e.ret, agg_name, agg, r.ret),
                    agg)
        Found(e, agg) == Copied(e, agg, CopyOnRead(e.heap, e.dicts, agg))
        Lookup(e) ==
            IF ~HasKey(e.dicts[e.ret], agg_name)
            THEN Missing(e, agg_name)
            ELSE Found(e, Get(e.dicts[e.ret], agg_name))
    IN  Lookup(EnsureAggs(h, d, b))

\* AggBase.__getitem__
GetItem(h, d, b, agg_name) ==
    LET Copied(e, agg, r) ==
            IF r.err # "" THEN Raise(e.heap, e.dicts, r.err)
            ELSE Ok(r.heap, StoreCopy(r.heap, r.dicts, e.ret, agg_name, agg, r.ret),
                    r.ret)
        Found(e, agg) == Copied(e, agg, CopyOnRead(e.heap, e.dicts, agg))
        Lookup(e) ==
            IF ~HasKey(e.dicts[e.ret], agg_name)
            THEN Missing(e, agg_name)
            ELSE Found(e, Get(e.dicts[e.ret], agg_name))
    IN  Lookup(EnsureAggs(h, d, b))

\* mutation: an entry already stored under the name is kept (setdefault)
SetItemKeep(h, d, b, agg_name, agg) ==
    LET Store(r, e) ==
            Ok(e.heap,
               [e.dicts EXCEPT ![e.ret] =
                    IF HasKey(@, agg_name) THEN @ ELSE Put(@, agg_name, r.ret)],
               r.ret)
        Built(r) ==
            IF r.err # "" THEN Raise(h, d, r.err)
            ELSE Store(r, EnsureAggs(r.heap, r.dicts, b))
    IN  Built(A(h, d, agg, None, <<>>))

\* mutation: the entry under the name is removed before the value is built
SetItemDropFirst(h, d, b, agg_name, agg) ==
    LET Built(e, r) ==
            IF r.err # ""
            THEN Raise(e.heap, [e.dicts EXCEPT ![e.ret] = Del(@, agg_name)], r.err)
            ELSE Ok(r.heap, [r.dicts EXCEPT ![e.ret] = Put(@, agg_name, r.ret)],
                    r.ret)
        Then(e) == Built(e, A(e.heap, e.dicts, agg, None, <<>>))
    IN  Then(EnsureAggs(h, d, b))

\* AggBase.__setitem__: self.aggs[agg_name] = A(agg); the value is built first
SetItem(h, d, b, agg_name, agg) ==
    LET Store(r, e) ==
            Ok(e.heap, [e.dicts EXCEPT ![e.ret] = Put(@, agg_name, r.ret)], r.ret)
        Built(r) ==
            IF r.err # "" THEN Raise(h, d, r.err)
            ELSE Store(r, EnsureAggs(r.heap, r.dicts, b))
    IN  Built(A(h, d, agg, None, <<>>))

\* mutation: every add returns the new node
ChainReturnNew(bucket, agg, base) == agg

\* mutation: every add returns the anchor
ChainReturnBase(bucket, agg, base) == base

\* mutation: bucket() hands out the receiver's anchor, the others the new node
ChainReturnSwapped(bucket, agg, base) == IF bucket THEN base ELSE agg

\* the `if bucket:` of _agg: the new node, or the receiver's _base
ChainReturn(bucket, agg, base) == IF bucket THEN agg ELSE base

\* AggBase._agg: agg = self[name] = A(agg_type, *args, **params)
AggCall(h, d, bucket, b, name, agg_type, filter, params) ==
    LET Stored(agg, s) ==
            Ok(s.heap, s.dicts, ChainReturn(bucket, agg, s.heap[b].base))
        Built(r) ==
            IF r.err # "" THEN Raise(h, d, r.err)
            ELSE Stored(r.ret, SetItem(r.heap, r.dicts, b, name, Ref(r.ret)))
    IN  Built(A(h, d, agg_type, filter, params))

\* ------------------------------------------------------ result materializer
\* mutation: MultiTerms has the result() of the field-partitioning classes
ResultClassSeven(kind) ==
    IF kind \in FieldBucketKinds \cup {"multi_terms"} THEN "FieldBucketData"
    ELSE IF kind = "top_hits" THEN "TopHitsData"
    ELSE IF kind \in BucketKinds THEN "BucketData"
    ELSE "AggResponse"

\* mutation: TopHits has no result() of its own
ResultClassPlainHits(kind) ==
    IF kind \in FieldBucketKinds THEN "FieldBucketData"
    ELSE IF kind \in BucketKinds THEN "BucketData"
    ELSE "AggResponse"

\* the view class self.result(search, data) constructs, by the method
\* resolution order of the class registered under kind: the class's own
\* result() (or the one it inherits), then AggBase.result for a Bucket, then
\* Agg.result
ResultClass(kind) ==
    IF kind \in FieldBucketKinds THEN "FieldBucketData"
    ELSE IF kind = "top_hits" THEN "TopHitsData"
    ELSE IF kind \in BucketKinds THEN "BucketData"
    ELSE "AggResponse"

\* mutation: no view looks at the payload when it is constructed
ViewInitLazy(cls, agg, data) ==
    [node |-> agg, cls |-> cls, data |-> data, err |-> ""]

\* the constructor of the view class cls: a payload without the field the
\* view is made for is refused (the bucket list of a field-partitioning view,
\* the hits of a top_hits view; a bucket list handed to the generic view of a
\* metric or pipeline leaf)
ViewInit(cls, agg, data) ==
    [node |-> agg, cls |-> cls, data |-> data,
     err |-> IF \/ cls = "FieldBucketData" /\ ~HasKey(data.v, "buckets")
                \/ cls = "TopHitsData" /\ ~HasKey(data.v, "hits")
                \/ cls = "AggResponse" /\ HasKey(data.v, "buckets")
             THEN "ShapeMismatchError" ELSE ""]

\* heap[i].result(search, data)
Result(h, i, data) == ViewInit(ResultClass(h[i].name), i, data)

RECURSIVE Desc(_, _, _, _)
\* the nodes reachable from the nodes of S through children, S included
Desc(h, d, S, n) ==
    IF n = 0 THEN S
    ELSE Desc(h, d,
              S \cup UNION {{Children(h, d, i)[j][2] :
                                j \in 1..Len(Children(h, d, i))} : i \in S},
              n - 1)

\* the nodes of the tree under i, i included
Tree(h, d, i) == Desc(h, d, {i}, Len(h))

\* ------------------------------------------------------- the caller's inputs
Names == {"a", "b"}

Q1 == Query(<< <<"term", Obj(<< <<"f", Str("v")>> >>)>> >>)
FieldX == <<"field", Str("x")>>
MetaEmpty == <<"meta", Obj(<<>>)>>
MetaM == <<"meta", Obj(<< <<"m", Str("1")>> >>)>>

Call(inp, flt, kw) == [inp |-> inp, flt |-> flt, kw |-> kw]

\* A(kind, *args, **params) as the caller writes it
KindCalls ==
    { Call(Str("terms"), None, <<>>),
      Call(Str("terms"), None, <<MetaEmpty>>),
      Call(Str("filter"), Q1, <<MetaM>>),
      Call(Str("avg"), None, <<FieldX>>),
      Call(Str("avg"), None,
           << <<"aggs", Obj(<< <<"a", Obj(<< <<"terms", Obj(<<>>)>> >>)>> >>)>> >>),
      Call(Str("derivative"), None, <<>>),
      Call(Str("avg"), None, <<FieldX, MetaM>>),
      Call(Str("derivative"), None, <<MetaM>>),
      Call(Str("avg"), Q1, <<>>),
      Call(Str("bogus"), None, <<>>) }

\* b.bucket(name, kind, *args, **params) as the caller writes it
BucketCalls ==
    { Call(Str("terms"), None, <<>>),
      Call(Str("filter"), Q1, <<>>),
      Call(Str("avg"), None, <<FieldX>>),
      Call(Str("bogus"), None, <<>>) }

\* b.metric(name, kind, *args, **params) as the caller writes it
MetricCalls ==
    { Call(Str("avg"), None, <<FieldX>>),
      Call(Str("avg"), Q1, <<>>),
      Call(Obj(<< <<"avg", Obj(<<>>)>>, <<"max", Obj(<<>>)>> >>), None, <<>>),
      Call(Obj(<< <<"avg", Obj(<<>>)>> >>), None, <<FieldX>>) }

\* b[name] = mapping as the caller writes it
SetMappings ==
    { Obj(<< <<"avg", Obj(<<FieldX>>)>> >>),
      Obj(<< <<"terms", Obj(<<>>)>>,
             <<"aggs", Obj(<< <<"b", Obj(<< <<"avg", Obj(<<FieldX>>)>> >>)>> >>)>>,
             MetaM >>),
      Obj(<< <<"bogus", Obj(<<>>)>> >>),
      Obj(<< <<"avg", Obj(<<>>)>>, <<"max", Obj(<<>>)>> >>) }

\* b.pipeline(name, kind, *args, **params) as the caller writes it
PipelineCalls ==
    { Call(Str("derivative"), None, <<>>) }

\* wire-format mappings the caller passes to A()
WireParams == { <<>>, <<FieldX>>, Q1.v }
WireKinds == {"terms", "filter", "avg", "bogus"}
Leaf(k, p) == Obj(<< <<k, Obj(p)>> >>)
ChildMaps ==
    { Leaf("avg", <<FieldX>>), Leaf("terms", <<>>), Leaf("bogus", <<>>),
      Obj(<< <<"avg", Obj(<<>>)>>, MetaEmpty >>) }
KindParts ==
    { <<>> } \cup { << <<k, Obj(p)>> >> : k \in WireKinds, p \in WireParams }
    \cup { << <<"terms", Obj(<<FieldX>>)>>, <<"avg", Obj(<<>>)>> >> }
AggsParts ==
    { <<>>, << <<"aggs", Obj(<<>>)>> >> }
    \cup { << <<"aggs", Obj(<< <<"a", c>> >>)>> >> : c \in ChildMaps }
    \cup { << <<"aggs", Obj(<< <<"b", Leaf("terms", <<>>)>>,
                               <<"a", Leaf("avg", <<FieldX>>)>> >>)>> >> }
MetaParts == { <<>>, <<MetaEmpty>>, <<MetaM>> }
WireMappings == { Obj(k \o a \o m) : k \in KindParts, a \in AggsParts, m \in MetaParts }

\* A(mapping, *args, **params) as the caller writes it
WireCalls ==
    { Call(m, None, <<>>) : m \in WireMappings }
    \cup { Call(Obj(k), flt, kw) : k \in {<<>>, Leaf("terms", <<FieldX>>).v},
                                  flt \in {None, Q1}, kw \in {<<>>, <<FieldX>>} }
    \cup { Call(Obj(Leaf(k, <<>>).v \o a), None, <<>>) :
               k \in {"derivative", "top_hits"},
               a \in { << <<"aggs", Obj(<< <<"a", Leaf("avg", <<FieldX>>)>> >>)>> >> } }

\* A(kind, filter, **params): kind-tag calls with a positional filter
TagCalls ==
    { Call(Str(k), Q1, kw) : k \in {"filter", "terms", "avg", "bogus"},
                             kw \in {<<>>, <<MetaM>>} }
    \cup { Call(Str("filter"), None, <<>>), Call(Str("bogus"), None, <<>>) }
    \cup { Call(Str(k), None,
                << <<"aggs", Obj(<< <<"a", Leaf("terms", <<>>)>> >>)>> >>) :
               k \in {"avg", "derivative"} }

\* raw aggregation responses: a terms-shaped bucket list (keyed by partition
\* key), a scalar summary, document hits, a single-bucket count
Payloads ==
    { Obj(<< <<"buckets", Obj(<< <<"red", Str("3")>>, <<"blue", Str("1")>> >>)>> >>),
      Obj(<< <<"value", Str("1")>> >>),
      Obj(<< <<"hits", Obj(<<>>)>> >>),
      Obj(<< <<"doc_count", Str("3")>> >>) }

\* b.metric(name, kind, **params) as the caller of a search writes it
ResultCalls ==
    { Call(Str("top_hits"), None, <<>>), Call(Str("avg"), None, <<FieldX>>) }

\* ------------------------------------------------------------------ state
NoCall == [op |-> "", recv |-> 0, name |-> "", inp |-> None, flt |-> None,
           kw |-> <<>>, ret |-> 0, err |-> ""]
NoChain == [root |-> 0, buckets |-> 0, via |-> "", parent |-> 0, pname |-> ""]
NoWire == [given |-> None, now |-> None]
NoView == [node |-> 0, cls |-> "", data |-> None, err |-> ""]
NoOpened == [b |-> 0, k |-> "", o |-> 0, n |-> 0, added |-> {}, wb |-> FALSE,
             again |-> FALSE]

Init ==
    /\ heap = <<>>
    /\ dicts = <<>>
    /\ last = NoCall
    /\ chain = NoChain
    /\ opened = NoOpened
    /\ nset = 0
    /\ wire = NoWire
    /\ view = NoView

Fits(r) == Len(r.heap) <= MaxObj /\ Len(r.dicts) <= MaxDict

\* the references the caller holds: the root, what the last call returned, and
\* the instance a bucket read replaced together with the copy it handed out
Held == ({1, last.ret, opened.o, opened.n} \ {0}) \cap (1..Len(heap))

\* the held references whose class has the container protocol
Buckets == {i \in Held : IsBucket(heap, i)}

\* the chain a call on receiver b belongs to: it goes on when b is what the
\* previous bucket/metric/pipeline call returned, and starts at b otherwise
ChainAt(b) ==
    IF last.op \in {"bucket", "metric", "pipeline"} /\ last.err = "" /\ last.ret = b
    THEN [root |-> chain.root,
          buckets |-> IF last.op = "bucket" THEN chain.buckets + 1 ELSE chain.buckets,
          via |-> last.op, parent |-> last.recv, pname |-> last.name]
    ELSE [root |-> b, buckets |-> 0, via |-> "", parent |-> 0, pname |-> ""]

\* what the caller has done to the copy the last bucket read handed out
OpenedAfterAdd(b, name, r) ==
    IF r.err = "" /\ opened.n # 0 /\ b = opened.n
    THEN [opened EXCEPT !.added = @ \cup {name}]
    ELSE IF r.err = "" /\ opened.n # 0 /\ b = opened.b /\ name = opened.k
            /\ r.ret = opened.n
    THEN [opened EXCEPT !.wb = TRUE]
    ELSE opened

Commit(r) == heap' = r.heap /\ dicts' = r.dicts

\* the caller builds a node: A(kind, *args, **params) or A(node, **params)
Build(c) ==
    \E r \in {A(heap, dicts, c.inp, c.flt, c.kw)} :
        /\ Fits(r)
        /\ IF r.err = "" THEN Commit(r) ELSE UNCHANGED <<heap, dicts>>
        /\ last' = [op |-> "build", recv |-> 0, name |-> "", inp |-> c.inp,
                    flt |-> c.flt, kw |-> c.kw, ret |-> r.ret, err |-> r.err]
        /\ chain' = NoChain
        /\ wire' = IF c.inp.t = "obj"
                    THEN [given |-> c.inp, now |-> AfterA(c.inp, c.flt, c.kw)]
                    ELSE wire
        /\ UNCHANGED <<opened, nset, view>>

\* an exception that nothing catches ends the caller's run
Running == last.err = ""

\* the first call of a behaviour builds the root from a kind tag
BuildKind ==
    /\ last = NoCall
    /\ \E c \in KindCalls : Build(c)

\* A(node, **params) on a node the caller holds
BuildNode ==
    /\ Running
    /\ \E i \in Held, flt \in {None, Q1}, kw \in {<<>>, <<FieldX>>} :
          Build(Call(Ref(i), flt, kw))

\* the first call of a behaviour builds the root from a wire-format mapping
BuildWire ==
    /\ last = NoCall
    /\ \E c \in WireCalls : Build(c)

\* the first call of a behaviour builds the root from a kind tag and a
\* positional filter
BuildTag ==
    /\ last = NoCall
    /\ \E c \in TagCalls : Build(c)

Tail1(op, b, name, c, r) ==
    last' = [op |-> op, recv |-> b, name |-> name, inp |-> c.inp, flt |-> c.flt,
             kw |-> c.kw, ret |-> r.ret, err |-> r.err]

\* b[name] = node, for a node that does not hold b
DoSet ==
    /\ Running
    /\ nset < MaxSets
    /\ nset' = nset + 1
    /\ \E b \in Buckets, name \in Names, i \in Held \ {1} :
        \E r \in {SetItem(heap, dicts, b, name, Ref(i))} :
            /\ b \notin Tree(heap, dicts, i)
            /\ Fits(r)
            /\ Commit(r)
            /\ Tail1("set", b, name, Call(Ref(i), None, <<>>), r)
            /\ chain' = NoChain
            /\ opened' = OpenedAfterAdd(b, name, r)
            /\ UNCHANGED <<wire, view>>

\* b[name] = mapping
DoSetMapping ==
    /\ Running
    /\ \E b \in Buckets, name \in Names, m \in SetMappings :
        \E r \in {SetItem(heap, dicts, b, name, m)} :
            /\ Fits(r)
            /\ Commit(r)
            /\ Tail1("set", b, name, Call(m, None, <<>>), [r EXCEPT !.ret = 0])
            /\ chain' = NoChain
            /\ opened' = OpenedAfterAdd(b, name, r)
            /\ UNCHANGED <<nset, wire, view>>

\* b[name]
DoGet ==
    /\ Running
    /\ \E b \in Buckets, name \in Names :
        \E r \in {GetItem(heap, dicts, b, name)},
           old \in {ChildOf(heap, dicts, b, name)} :
            /\ Fits(r)
            /\ Commit(r)
            /\ Tail1("get", b, name, Call(None, None, <<>>), r)
            /\ chain' = NoChain
            /\ opened' =
                 IF r.err = "" /\ old # 0 /\ IsBucket(heap, old)
                 THEN [b |-> b, k |-> name, o |-> old, n |-> r.ret, added |-> {},
                       wb |-> FALSE,
                       again |-> /\ opened.b = b /\ opened.k = name
                                 /\ opened.n = old /\ opened.added # {}
                                 /\ ~opened.wb]
                 ELSE [opened EXCEPT !.again = FALSE]
            /\ UNCHANGED <<nset, wire, view>>

DoAgg(op, bucket, calls) ==
    /\ Running
    /\ \E b \in Buckets, name \in Names, c \in calls :
        \E r \in {AggCall(heap, dicts, bucket, b, name, c.inp, c.flt, c.kw)} :
            /\ Fits(r)
            /\ Commit(r)
            /\ Tail1(op, b, name, c, r)
            /\ chain' = ChainAt(b)
            /\ opened' = OpenedAfterAdd(b, name, r)
            /\ UNCHANGED <<nset, wire, view>>

\* b.bucket(name, kind, *args, **params)
DoBucket == DoAgg("bucket", TRUE, BucketCalls)
\* b.metric(name, kind, *args, **params)
DoMetric == DoAgg("metric", FALSE, MetricCalls)
\* b.pipeline(name, kind, *args, **params)
DoPipeline == DoAgg("pipeline", FALSE, PipelineCalls)

Next ==
    \/ BuildKind
    \/ DoSetMapping
    \/ DoGet
    \/ DoBucket
    \/ DoMetric
    \/ DoPipeline

Spec == Init /\ [][Next]_vars

\* b.metric(name, kind, **params) on a node built from a mapping
WireMetric ==
    DoAgg("metric", FALSE, {Call(Str("avg"), None, <<FieldX>>),
                            Call(Str("bogus"), None, <<>>)})

NextWire ==
    \/ BuildWire
    \/ BuildTag
    \/ WireMetric
    \/ BuildNode
    \/ DoGet

SpecWire == Init /\ [][NextWire]_vars

\* the root of the aliasing runs: A("terms")
AliasRoot ==
    /\ last = NoCall
    /\ Build(Call(Str("terms"), None, <<>>))

AliasBucket == DoAgg("bucket", TRUE, {Call(Str("terms"), None, <<>>)})

AliasMetric == DoAgg("metric", FALSE, {Call(Str("avg"), None, <<FieldX>>)})

NextAlias ==
    \/ AliasRoot
    \/ BuildNode
    \/ AliasBucket
    \/ AliasMetric
    \/ DoGet
    \/ DoSet

SpecAlias == Init /\ [][NextAlias]_vars

\* the root of a search's aggregations: A(kind) for a registered kind
BuildAny ==
    /\ last = NoCall
    /\ \E kind \in Registry : Build(Call(Str(kind), None, <<>>))

ResultMetric == DoAgg("metric", FALSE, ResultCalls)

\* agg.result(search, data) on a node of the tree, as the response does for
\* the root and for each child it is asked for
DoResult ==
    /\ Running
    /\ heap # <<>>
    /\ \E i \in Tree(heap, dicts, 1), data \in Payloads :
        \E r \in {Result(heap, i, data)} :
            /\ view' = r
            /\ last' = [op |-> "result", recv |-> i, name |-> "", inp |-> data,
                        flt |-> None, kw |-> <<>>, ret |-> 0, err |-> r.err]
            /\ chain' = NoChain
            /\ UNCHANGED <<heap, dicts, opened, nset, wire>>

NextResult ==
    \/ BuildAny
    \/ ResultMetric
    \/ DoResult

SpecResult == Init /\ [][NextResult]_vars

\* ================================================================== claims
AddOps == {"set", "bucket", "metric", "pipeline"}

\* serialize(build(serialize(n))) == serialize(n) for the node heap[i]
RoundTrip(h, d, i) ==
    LET Back(w, r) ==
            r.err = "" /\ DictEq(ToDict(r.heap, r.dicts, r.ret), w)
    IN  Back(ToDict(h, d, i), A(h, d, ToDict(h, d, i), None, <<>>))

\* the nodes of the tree under i that hold an empty meta
EmptyMeta(h, d, i) ==
    {j \in Tree(h, d, i) :
        HasKey(h[j].params, "meta") /\ ~Truthy(Get(h[j].params, "meta"))}

\* C1 as stated: every node the caller can reach, of every kind, with or
\* without children, with or without a meta entry (an empty meta included),
\* survives the round trip through the wire format: serializing it, building
\* from the result and serializing again gives the same mapping.
C1_RoundTrip == \A i \in 1..Len(heap) : RoundTrip(heap, dicts, i)

\* C1 as amended: the round trip is stable for every reachable node whose
\* tree holds no empty meta (A() drops an empty meta that to_dict() emits).
C1_RoundTripNonEmptyMeta ==
    \A i \in 1..Len(heap) :
        EmptyMeta(heap, dicts, i) = {} => RoundTrip(heap, dicts, i)

C1_Witness ==
    \E i \in 1..Len(heap) :
        /\ Children(heap, dicts, i) # <<>>
        /\ HasKey(heap[i].params, "meta")
        /\ HasKey(heap[i].params, "filter")
        /\ EmptyMeta(heap, dicts, i) = {}
        /\ RoundTrip(heap, dicts, i)

\* serialize(w).aggs[name]
SubAgg(w, name) == Get(Get(w.v, "aggs").v, name)

\* C4 as stated: reading a bucket child of any bucket kind, `filter` with its
\* sub-query included, succeeds and returns a new object of the same kind that
\* serializes like the child stored before, and leaves serialize(b) as it was.
C4_GetCopies ==
    [][ last'.op = "get" =>
        \A old \in {ChildOf(heap, dicts, last'.recv, last'.name)} :
          (old # 0 /\ IsBucket(heap, old))
          => /\ last'.err = ""
             /\ last'.ret \notin 1..Len(heap)
             /\ heap'[last'.ret].name = heap[old].name
             /\ DictEq(ToDict(heap', dicts', last'.ret), ToDict(heap, dicts, old))
             /\ DictEq(ToDict(heap', dicts', last'.recv),
                       ToDict(heap, dicts, last'.recv)) ]_vars

\* C5 as stated: metric() and pipeline() return the node on which the chain
\* of calls started, however many bucket() calls were chained before.
C5_ReturnsRoot ==
    (last.op \in {"metric", "pipeline"} /\ last.err = "")
    => last.ret = chain.root

\* C5 as amended: metric() and pipeline() return the anchor of the bucket they
\* are called on, which is that bucket itself and never the new leaf; it is the
\* node the chain started on only when no bucket() call was chained before.
C5_ReturnsReceiver ==
    (last.op \in {"metric", "pipeline"} /\ last.err = "")
    => /\ last.ret = last.recv
       /\ last.ret = heap[last.recv].base
       /\ last.ret # ChildOf(heap, dicts, last.recv, last.name)
       /\ (chain.buckets = 0 <=> last.ret = chain.root)

C5_Witness ==
    /\ last.op = "metric" /\ last.err = ""
    /\ chain.buckets = 2
    /\ last.ret # chain.root

\* C6: bucket() returns the very node it stored under the name, so a child
\* added through the returned node is stored under the new bucket and not
\* under b: b keeps its own names, and serialize(b) shows the child at
\* aggs.<bucket name>.aggs.<child name>.
C6_BucketChains ==
    [][ /\ (last'.op = "bucket" /\ last'.err = "")
           => ChildOf(heap', dicts', last'.recv, last'.name) = last'.ret
        /\ (/\ last.op = "bucket" /\ last.err = ""
            /\ last'.op \in AddOps /\ last'.err = ""
            /\ last'.recv = last.ret)
           => \A child \in {ChildOf(heap', dicts', last.ret, last'.name)} :
                /\ child # 0
                /\ child \notin 1..Len(heap)
                /\ ChildOf(heap', dicts', last.recv, last.name) = last.ret
                /\ Iter(heap', dicts', last.recv) = Iter(heap, dicts, last.recv)
                /\ ChildOf(heap', dicts', last.recv, last'.name)
                     = ChildOf(heap, dicts, last.recv, last'.name)
                /\ SubAgg(SubAgg(ToDict(heap', dicts', last.recv), last.name),
                          last'.name)
                     = ToDict(heap', dicts', child) ]_vars

C6_Witness ==
    /\ last.op = "metric" /\ last.err = ""
    /\ chain.via = "bucket" /\ chain.parent # 0
    /\ ChildOf(heap, dicts, chain.parent, chain.pname) = last.recv
    /\ Contains(heap, dicts, last.recv, last.name)
    /\ ~Contains(heap, dicts, chain.parent, last.name)

\* C7 as stated: for every kind tag bucket() accepts, the node it returns is
\* of Bucket category and is an object that did not exist before the call.
C7_NewBucket ==
    [][ (last'.op = "bucket" /\ last'.err = "")
        => /\ IsBucket(heap', last'.ret)
           /\ last'.ret # last'.recv
           /\ last'.ret \notin 1..Len(heap) ]_vars

\* C7 as amended: bucket() returns a new object of the class registered under
\* the kind tag, different from the receiver and from every node that existed
\* before; it is of Bucket category exactly when the tag names a bucket kind
\* (a metric or pipeline tag is accepted and gives the new leaf).
C7_NewNode ==
    [][ (last'.op = "bucket" /\ last'.err = "")
        => /\ last'.ret # last'.recv
           /\ last'.ret \notin 1..Len(heap)
           /\ heap'[last'.ret].name = last'.inp.v
           /\ IsBucket(heap', last'.ret) <=> last'.inp.v \in BucketKinds
           /\ \A i \in 1..Len(heap) : heap'[i].name = heap[i].name ]_vars

C7_Witness ==
    /\ last.op = "bucket" /\ last.err = ""
    /\ ~IsBucket(heap, last.ret)
    /\ ChildOf(heap, dicts, last.recv, last.name) = last.ret
\* the parent-to-child edges of the tree under b that lead to node x
EdgesTo(h, d, b, x) ==
    {e \in Tree(h, d, b) \X Names : ChildOf(h, d, e[1], e[2]) = x}

\* the step is an add (set, bucket, metric) that succeeded on receiver x
AddOn(x) ==
    /\ x # 0
    /\ last'.op \in AddOps /\ last'.err = ""
    /\ last'.recv = x

\* the step is a successful read of a child that was a bucket
GetBucket(old) ==
    /\ last'.op = "get" /\ last'.err = ""
    /\ old # 0 /\ IsBucket(heap, old)

\* C2 as stated: the object a read of a bucket child hands out is isolated
\* from the container: a child added to it leaves serialize(b) as it was
\* unless the caller writes the object back with set, and the next read of
\* the same name gives an object without that child.
C2_ReadsIsolated ==
    [][ /\ (/\ AddOn(opened.n) /\ ~opened.wb
            /\ ChildOf(heap, dicts, opened.b, opened.k) = opened.n)
           => DictEq(ToDict(heap', dicts', opened.b),
                     ToDict(heap, dicts, opened.b))
        /\ (last'.op = "get" /\ last'.err = "" /\ opened'.again)
           => \A c \in opened.added :
                  ~Contains(heap', dicts', last'.ret, c) ]_vars

\* C2 as amended: a read of a bucket child stores the new copy it returns in
\* the container, so the copy is the container's child: a child added to it
\* shows in serialize(b) at aggs.<k>.aggs.<name> with no write-back, and the
\* next read of the same name gives yet another new object that has every
\* child added to the previous one and serializes like it.
C2_ReadsShare ==
    [][ /\ last'.op = "get" =>
           \A old \in {ChildOf(heap, dicts, last'.recv, last'.name)} :
             GetBucket(old)
             => /\ ChildOf(heap', dicts', last'.recv, last'.name) = last'.ret
                /\ last'.ret \notin 1..Len(heap)
        /\ (/\ AddOn(opened.n)
            /\ ChildOf(heap, dicts, opened.b, opened.k) = opened.n)
           => SubAgg(SubAgg(ToDict(heap', dicts', opened.b), opened.k),
                     last'.name)
                = ToDict(heap', dicts',
                         ChildOf(heap', dicts', opened.n, last'.name))
        /\ (last'.op = "get" /\ last'.err = "" /\ opened'.again)
           => /\ last'.ret # opened.n
              /\ \A c \in opened.added : Contains(heap', dicts', last'.ret, c)
              /\ Children(heap', dicts', last'.ret)
                   = Children(heap, dicts, opened.n)
              /\ DictEq(ToDict(heap', dicts', last'.ret),
                        ToDict(heap, dicts, opened.n)) ]_vars

C2_Witness ==
    /\ last.op = "get" /\ last.err = ""
    /\ opened.again
    /\ opened.o # 0 /\ opened.n = last.ret
    /\ Children(heap, dicts, last.ret) # <<>>

NonReserved(m) == Del(Del(m, "aggs"), "meta")

\* the call is build(mapping) with neither filterArg nor params
WireBuild ==
    /\ last.op = "build" /\ last.inp.t = "obj"
    /\ last.flt = None /\ last.kw = <<>>

RECURSIVE Buildable(_)
\* the mapping has one non-reserved key, a registered kind, and so has every
\* entry of its non-empty aggs
Buildable(m) ==
    /\ Len(NonReserved(m)) = 1
    /\ NonReserved(m)[1][1] \in Registry
    /\ Truthy(PopOf(m, "aggs"))
       => \A j \in 1..Len(Get(m, "aggs").v) : Buildable(Get(m, "aggs").v[j][2].v)

\* an aggs or meta entry, when the mapping has one, is not empty
ReservedNonEmpty(m) ==
    /\ HasKey(m, "aggs") => Truthy(Get(m, "aggs"))
    /\ HasKey(m, "meta") => Truthy(Get(m, "meta"))

RECURSIVE Matches(_, _, _, _)
\* node i is of the kind the mapping names, holds the parameters under that
\* key, the meta, and one child per entry of aggs, in order, each matching
Matches(h, d, i, m) ==
    /\ h[i].name = NonReserved(m)[1][1]
    /\ Del(Del(h[i].params, "aggs"), "meta") = NonReserved(m)[1][2].v
    /\ IF Truthy(PopOf(m, "meta"))
       THEN HasKey(h[i].params, "meta") /\ Get(h[i].params, "meta") = Get(m, "meta")
       ELSE ~HasKey(h[i].params, "meta")
    /\ IF Truthy(PopOf(m, "aggs"))
       THEN /\ Iter(h, d, i)
                 = [j \in 1..Len(Get(m, "aggs").v) |-> Get(m, "aggs").v[j][1]]
            /\ \A j \in 1..Len(Get(m, "aggs").v) :
                   /\ Contains(h, d, i, Get(m, "aggs").v[j][1])
                   /\ Matches(h, d, ChildOf(h, d, i, Get(m, "aggs").v[j][1]),
                              Get(m, "aggs").v[j][2].v)
       ELSE Children(h, d, i) = <<>>

\* node i is a leaf of the kind the mapping names: the aggs entry is kept as
\* a plain parameter and no child is built from it
MatchesLeaf(h, d, i, m) ==
    /\ h[i].name = NonReserved(m)[1][1]
    /\ Del(h[i].params, "meta")
         = Reattach(NonReserved(m)[1][2].v, "aggs", PopOf(m, "aggs"))
    /\ Truthy(PopOf(m, "meta"))
       => HasKey(h[i].params, "meta") /\ Get(h[i].params, "meta") = Get(m, "meta")
    /\ Children(h, d, i) = <<>>
    /\ \A nm \in Names : ~Contains(h, d, i, nm)

\* C8 as stated: build(mapping) on a mapping with exactly one non-reserved
\* key K (of a registered kind, with non-empty aggs and/or meta beside it)
\* gives a node of kind K whose parameters are mapping[K], whose children are
\* the nodes built from the entries of mapping['aggs'] and whose meta is
\* mapping['meta'].
C8_BuildsTree ==
    (WireBuild /\ Buildable(last.inp.v) /\ ReservedNonEmpty(last.inp.v))
    => /\ last.err = ""
       /\ Matches(heap, dicts, last.ret, last.inp.v)

\* C8 as amended: the children are built from mapping['aggs'] when K is a
\* bucket kind; for a metric or pipeline kind K the aggs entry stays a plain
\* parameter of the node, which has no children.
C8_BuildsBucketTree ==
    (WireBuild /\ Buildable(last.inp.v) /\ ReservedNonEmpty(last.inp.v))
    => /\ last.err = ""
       /\ IF NonReserved(last.inp.v)[1][1] \in BucketKinds
          THEN Matches(heap, dicts, last.ret, last.inp.v)
          ELSE MatchesLeaf(heap, dicts, last.ret, last.inp.v)

C8_Witness ==
    /\ WireBuild /\ last.err = ""
    /\ Buildable(last.inp.v) /\ ReservedNonEmpty(last.inp.v)
    /\ HasKey(last.inp.v, "meta")
    /\ Len(Children(heap, dicts, last.ret)) = 2
    /\ Matches(heap, dicts, last.ret, last.inp.v)

\* C9: build(mapping) on a mapping with no non-reserved key, or with more
\* than one, raises InvalidShapeError and builds no node.
C9_InvalidShape ==
    (WireBuild /\ Len(NonReserved(last.inp.v)) # 1)
    => /\ last.err = "InvalidShapeError"
       /\ last.ret = 0
       /\ heap = <<>> /\ dicts = <<>>

C9_Witness ==
    /\ WireBuild
    /\ Len(NonReserved(last.inp.v)) = 2
    /\ HasKey(last.inp.v, "aggs")
    /\ last.err = "InvalidShapeError"

\* the step is build(mapping or node) with keyword parameters
BuildWithParams ==
    /\ last'.op = "build"
    /\ last'.inp.t \in {"obj", "agg"}
    /\ last'.kw # <<>>

\* C10 as stated: keyword parameters supplied together with a mapping or an
\* existing node always raise AmbiguousInputError; nothing is built, returned
\* or merged.
C10_Ambiguous ==
    [][ BuildWithParams
        => /\ last'.err = "AmbiguousInputError"
           /\ last'.ret = 0
           /\ heap' = heap /\ dicts' = dicts ]_vars

\* C10 as amended: the call raises AmbiguousInputError when no filterArg is
\* given; with a filterArg as well the filter check comes first and the call
\* raises InvalidArgumentError. Either way nothing is built, returned or
\* merged.
C10_Rejected ==
    [][ BuildWithParams
        => /\ last'.err = IF last'.flt = None THEN "AmbiguousInputError"
                          ELSE "InvalidArgumentError"
           /\ last'.ret = 0
           /\ heap' = heap /\ dicts' = dicts ]_vars

C10_Witness ==
    /\ last.op = "build" /\ last.inp.t = "agg"
    /\ last.kw # <<>> /\ last.flt = None
    /\ last.err = "AmbiguousInputError"
    /\ heap # <<>>
\* C11: a positional filterArg is accepted only with the kind tag 'filter':
\* with any other first argument (another kind tag, an unknown tag, a mapping,
\* a node) build raises InvalidArgumentError and builds nothing; with 'filter'
\* the new node's `filter` parameter is the filterArg.
C11_FilterArg ==
    [][ (last'.op = "build" /\ last'.flt # None)
        => IF last'.inp = Str("filter")
           THEN /\ last'.err = ""
                /\ last'.ret \notin 1..Len(heap)
                /\ heap'[last'.ret].name = "filter"
                /\ HasKey(heap'[last'.ret].params, "filter")
                /\ Get(heap'[last'.ret].params, "filter") = last'.flt
           ELSE /\ last'.err = "InvalidArgumentError"
                /\ last'.ret = 0
                /\ heap' = heap /\ dicts' = dicts ]_vars

C11_Witness ==
    /\ last.op = "build" /\ last.inp = Str("filter") /\ last.flt = Q1
    /\ last.err = ""
    /\ Get(heap[last.ret].params, "filter") = Q1
    /\ HasKey(heap[last.ret].params, "meta")
C13_Passthrough ==
    [][ /\ (/\ last'.op = "build" /\ last'.inp.t = "agg"
            /\ last'.kw = <<>> /\ last'.flt = None)
           => /\ last'.err = ""
              /\ last'.ret = last'.inp.v
              /\ heap' = heap /\ dicts' = dicts
        /\ (last'.op = "set" /\ last'.inp.t = "agg" /\ last'.err = "")
           => /\ ChildOf(heap', dicts', last'.recv, last'.name) = last'.inp.v
              /\ last'.ret = last'.inp.v
              /\ Len(heap') = Len(heap)
              /\ heap'[last'.inp.v] = heap[last'.inp.v]
              /\ Children(heap', dicts', last'.inp.v)
                   = Children(heap, dicts, last'.inp.v) ]_vars

C13_Witness ==
    /\ last.op = "set" /\ last.inp.t = "agg" /\ last.err = ""
    /\ ChildOf(heap, dicts, last.recv, last.name) = last.inp.v
    /\ \E c \in (1..Len(heap)) \ {last.recv} :
          \E nm \in Names : ChildOf(heap, dicts, c, nm) = last.inp.v
\* the step builds, directly or for an add, from a kind tag that is not
\* registered or from a mapping whose single key is not registered
UnknownKindCall ==
    /\ last'.op \in {"build", "bucket", "metric", "pipeline"}
    /\ last'.flt = None
    /\ \/ last'.inp.t = "str" /\ last'.inp.v \notin Registry
       \/ /\ last'.inp.t = "obj" /\ last'.kw = <<>>
          /\ Len(NonReserved(last'.inp.v)) = 1
          /\ NonReserved(last'.inp.v)[1][1] \notin Registry

\* C14: building from a kind tag, or from a mapping whose single key is a
\* kind tag, that is not registered raises UnknownAggregationKindError: no
\* node is returned or created, and when an add triggered the build nothing
\* is stored in the container.
C14_UnknownKind ==
    [][ UnknownKindCall
        => /\ last'.err = "UnknownAggregationKindError"
           /\ last'.ret = 0
           /\ heap' = heap /\ dicts' = dicts ]_vars

C14_Witness ==
    /\ last.op = "metric" /\ last.inp = Str("bogus")
    /\ last.err = "UnknownAggregationKindError"
    /\ Children(heap, dicts, last.recv) # <<>>
    /\ ~Contains(heap, dicts, last.recv, last.name)
\* the ways the build behind an add can fail
BuildErrors ==
    {"UnknownAggregationKindError", "InvalidShapeError", "AmbiguousInputError",
     "InvalidArgumentError"}

\* C15: a set, addBucket, addMetric or addPipeline that fails (unknown kind,
\* invalid mapping shape, ambiguous input, filterArg with a non-filter kind)
\* leaves the container as it was: the same names in the same order, the same
\* serialization, the entry stored under the requested name intact.
C15_FailedAddKeeps ==
    [][ (last'.op \in AddOps /\ last'.err # "")
        => /\ last'.err \in BuildErrors
           /\ Iter(heap', dicts', last'.recv) = Iter(heap, dicts, last'.recv)
           /\ \A nm \in Names :
                 /\ Contains(heap', dicts', last'.recv, nm)
                      = Contains(heap, dicts, last'.recv, nm)
                 /\ ChildOf(heap', dicts', last'.recv, nm)
                      = ChildOf(heap, dicts, last'.recv, nm)
           /\ ToDict(heap', dicts', last'.recv) = ToDict(heap, dicts, last'.recv)
           /\ heap' = heap /\ dicts' = dicts ]_vars

C15_Witness ==
    /\ last.op = "set" /\ last.err = "InvalidShapeError"
    /\ ChildOf(heap, dicts, last.recv, last.name) # 0
    /\ Len(Children(heap, dicts, last.recv)) = 2
\* C16: get of a name that is not a child of b raises NotFoundError and
\* leaves has(), iteration and serialize(b) as they were, also when b had no
\* aggs dict before the failed lookup.
C16_NotFound ==
    [][ last'.op = "get" =>
        (ChildOf(heap, dicts, last'.recv, last'.name) = 0
         => /\ last'.err = "NotFoundError"
            /\ last'.ret = 0
            /\ Iter(heap', dicts', last'.recv) = Iter(heap, dicts, last'.recv)
            /\ \A nm \in Names :
                  Contains(heap', dicts', last'.recv, nm)
                    = Contains(heap, dicts, last'.recv, nm)
            /\ \A i \in 1..Len(heap) :
                  ToDict(heap', dicts', i) = ToDict(heap, dicts, i)) ]_vars

C16_Witness ==
    /\ last.op = "get" /\ last.err = "NotFoundError"
    /\ HasKey(heap[last.recv].params, "aggs")
    /\ Children(heap, dicts, last.recv) = <<>>
    /\ ~HasKey(ToDict(heap, dicts, last.recv).v, "aggs")
\* the names under the sibling aggs key of a serialization
AggsKeys(w) == IF HasKey(w.v, "aggs") THEN Keys(Get(w.v, "aggs").v) ELSE {}

\* C17: on a bucket has(name) is true exactly for the names iteration yields
\* and serialization lists; a name is there from its first successful store
\* on; nothing but a successful add of that name to that node changes has(),
\* so get, failed or not, adds and removes nothing and the copy it hands out
\* has the names of the child it replaces; on a metric or pipeline node
\* has(name) is false for every name, an aggs parameter notwithstanding.
C17_Has ==
    [][ /\ \A i \in 1..Len(heap'), nm \in Names :
              /\ Contains(heap', dicts', i, nm)
                 <=> (/\ IsBucket(heap', i)
                      /\ \E j \in 1..Len(Iter(heap', dicts', i)) :
                            Iter(heap', dicts', i)[j] = nm)
              /\ Contains(heap', dicts', i, nm)
                 <=> (/\ IsBucket(heap', i)
                      /\ nm \in AggsKeys(ToDict(heap', dicts', i)))
        /\ (last'.op \in AddOps /\ last'.err = "")
           => Contains(heap', dicts', last'.recv, last'.name)
        /\ \A i \in 1..Len(heap), nm \in Names :
              Contains(heap', dicts', i, nm) # Contains(heap, dicts, i, nm)
              => /\ last'.op \in AddOps /\ last'.err = ""
                 /\ i = last'.recv /\ nm = last'.name
                 /\ Contains(heap', dicts', i, nm)
        /\ (last'.op = "get" /\ last'.err = "")
           => \A nm \in Names :
                 Contains(heap', dicts', last'.ret, nm)
                   = Contains(heap, dicts,
                              ChildOf(heap, dicts, last'.recv, last'.name), nm)
      ]_vars

C17_Witness ==
    /\ last.op = "get" /\ last.err = ""
    /\ IsBucket(heap, last.ret)
    /\ Children(heap, dicts, last.ret) # <<>>
    /\ \E nm \in Names : ~Contains(heap, dicts, last.recv, nm)
    /\ \E nm \in Names : Contains(heap, dicts, last.ret, nm)
\* C18: set(name, value) stores build(value) under name in place of any
\* entry stored there: the child under name has exactly the value's kind,
\* params, meta and children, nothing of the prior entry is merged into it,
\* the name keeps its place (a new name goes last), and every other child of
\* b, every other node and b's own kind and params stay as they were.
C18_SetReplaces ==
    [][ (last'.op = "set" /\ last'.inp.t = "obj" /\ last'.err = "")
        => \A child \in {ChildOf(heap', dicts', last'.recv, last'.name)},
              old \in {ChildOf(heap, dicts, last'.recv, last'.name)} :
             /\ child # 0 /\ child \notin 1..Len(heap)
             /\ Matches(heap', dicts', child, last'.inp.v)
             /\ old # 0 => old \notin Tree(heap', dicts', child)
             /\ Iter(heap', dicts', last'.recv)
                  = IF old # 0 THEN Iter(heap, dicts, last'.recv)
                    ELSE Append(Iter(heap, dicts, last'.recv), last'.name)
             /\ \A nm \in Names \ {last'.name} :
                   ChildOf(heap', dicts', last'.recv, nm)
                     = ChildOf(heap, dicts, last'.recv, nm)
             /\ \A i \in (1..Len(heap)) \ {last'.recv} :
                   /\ heap'[i] = heap[i]
                   /\ Children(heap', dicts', i) = Children(heap, dicts, i)
             /\ heap'[last'.recv].name = heap[last'.recv].name
             /\ Del(heap'[last'.recv].params, "aggs")
                  = Del(heap[last'.recv].params, "aggs") ]_vars

\* the name set last stands first, before a name added after it: an entry
\* was stored under it before, and the set replaced it
C18_Witness ==
    /\ last.op = "set" /\ last.inp.t = "obj" /\ last.err = ""
    /\ Len(Iter(heap, dicts, last.recv)) = 2
    /\ Iter(heap, dicts, last.recv)[1] = last.name
    /\ \E o \in 1..Len(heap) :
          IsBucket(heap, o) /\ o \notin Tree(heap, dicts, last.recv)
    /\ Matches(heap, dicts, ChildOf(heap, dicts, last.recv, last.name), last.inp.v)
\* the keys under the sibling aggs key of a serialization, in order
AggsOrder(w) ==
    IF HasKey(w.v, "aggs")
    THEN [j \in 1..Len(Get(w.v, "aggs").v) |-> Get(w.v, "aggs").v[j][1]]
    ELSE <<>>

\* C19: iteration yields each child name once, in the order of first
\* insertion: a step either leaves a node's order as it is (a re-set name and
\* the copy a read stores keep their place) or appends the one new name, the
\* copy a read hands out has the order of the child it replaces, and the aggs
\* object of the serialization lists the children in that same order.
C19_Order ==
    [][ /\ \A i \in 1..Len(heap') :
              /\ \A j, k \in 1..Len(Iter(heap', dicts', i)) :
                    Iter(heap', dicts', i)[j] = Iter(heap', dicts', i)[k] => j = k
              /\ IsBucket(heap', i)
                 => AggsOrder(ToDict(heap', dicts', i)) = Iter(heap', dicts', i)
        /\ \A i \in 1..Len(heap) :
              \/ Iter(heap', dicts', i) = Iter(heap, dicts, i)
              \/ /\ last'.op \in AddOps /\ last'.err = "" /\ i = last'.recv
                 /\ ~Contains(heap, dicts, i, last'.name)
                 /\ Iter(heap', dicts', i)
                      = Append(Iter(heap, dicts, i), last'.name)
        /\ (last'.op = "get" /\ last'.err = "")
           => Iter(heap', dicts', last'.ret)
                = Iter(heap, dicts, ChildOf(heap, dicts, last'.recv, last'.name))
      ]_vars

C19_Witness ==
    /\ last.op = "get" /\ last.err = ""
    /\ IsBucket(heap, last.ret)
    /\ ChildOf(heap, dicts, last.recv, last.name) = last.ret
    /\ Len(Iter(heap, dicts, last.recv)) = 2
    /\ Iter(heap, dicts, last.recv)[1] = last.name
    /\ AggsOrder(ToDict(heap, dicts, last.recv)) = Iter(heap, dicts, last.recv)
\* the serialization w of bucket i has the top-level shape of C20
BucketShape(h, d, i, w) ==
    /\ Keys(w) \ {"aggs", "meta"} = {h[i].name}
    /\ Cardinality(Keys(w)) = Len(w)
    /\ Get(w, h[i].name).t = "obj"
    /\ ~HasKey(Get(w, h[i].name).v, "aggs")
    /\ HasKey(w, "aggs") <=> Children(h, d, i) # <<>>
    /\ HasKey(w, "aggs")
       => /\ Len(Get(w, "aggs").v) = Len(Children(h, d, i))
          /\ \A j \in 1..Len(Children(h, d, i)) :
                Get(w, "aggs").v[j]
                  = <<Children(h, d, i)[j][1],
                      ToDict(h, d, Children(h, d, i)[j][2])>>

\* C20: the serialization of every bucket node has exactly one kind-tag key,
\* the node's kind, beside at most the sibling keys aggs and meta; aggs is
\* there exactly when the node has a child, maps each child name to the
\* child's serialization and never sits inside the kind tag's own object.
C20_OneKindKey ==
    \A i \in 1..Len(heap) :
        IsBucket(heap, i) => BucketShape(heap, dicts, i, ToDict(heap, dicts, i).v)

C20_Witness ==
    \E i \in 1..Len(heap) :
        /\ heap[i].name = "filter"
        /\ HasKey(heap[i].params, "filter") /\ HasKey(heap[i].params, "meta")
        /\ \E j \in 1..Len(Children(heap, dicts, i)) :
              /\ IsBucket(heap, Children(heap, dicts, i)[j][2])
              /\ Children(heap, dicts, Children(heap, dicts, i)[j][2]) # <<>>
        /\ BucketShape(heap, dicts, i, ToDict(heap, dicts, i).v)
\* the serialization w of node i carries the node's meta as C21 says
MetaShape(h, d, i, w) ==
    /\ Get(w, h[i].name).t = "obj"
    /\ ~HasKey(Get(w, h[i].name).v, "meta")
    /\ HasKey(w, "meta") <=> HasKey(h[i].params, "meta")
    /\ HasKey(h[i].params, "meta") => Get(w, "meta") = Get(h[i].params, "meta")

\* C21: the serialization of every node, bucket, metric or pipeline, whose
\* params hold a meta entry carries that meta under a sibling meta key beside
\* the kind-tag key and has no meta key inside the kind tag's own object; a
\* node without a meta entry serializes without any meta key.
C21_MetaHoisted ==
    \A i \in 1..Len(heap) : MetaShape(heap, dicts, i, ToDict(heap, dicts, i).v)

C21_Witness ==
    \E i \in 1..Len(heap) :
        /\ HasKey(heap[i].params, "meta")
        /\ Get(ToDict(heap, dicts, i).v, "meta") = MetaM[2]
        /\ \E j \in 1..Len(Children(heap, dicts, i)) :
              \E c \in {Children(heap, dicts, i)[j][2]} :
                 /\ ~IsBucket(heap, c)
                 /\ ~HasKey(heap[c].params, "meta")
                 /\ ~HasKey(ToDict(heap, dicts, c).v, "meta")
\* the params of a node other than the filter slot and the reserved entries
OwnParams(params) == Del(Del(Del(params, "filter"), "aggs"), "meta")

\* the serialization w of the filter node i, whose filter slot holds q, has
\* the merged shape of C22
FilterShape(h, d, i, q, w) ==
    /\ Keys(w) \ {"aggs", "meta"} = {"filter"}
    /\ Get(w, "filter").t = "obj"
    /\ OwnParams(h[i].params) = <<>> => Get(w, "filter").v = q.v
    /\ Keys(q.v) \subseteq Keys(Get(w, "filter").v)
    /\ \A k \in {"filter", "aggs", "meta"} : ~HasKey(Get(w, "filter").v, k)
    /\ HasKey(w, "aggs") <=> Children(h, d, i) # <<>>
    /\ HasKey(w, "aggs")
       => Get(w, "aggs") = Obj(HashToDict(h, d, Children(h, d, i), 1, <<>>))
    /\ HasKey(w, "meta") <=> HasKey(h[i].params, "meta")
    /\ HasKey(w, "meta") => Get(w, "meta") = Get(h[i].params, "meta")

\* C22: a filter node whose filter slot holds the sub-query q serializes to
\* {"filter": serialize(q)}: the kind tag's own object has exactly the fields
\* of q's serialization and no nested filter key, and the node's children and
\* meta are under the sibling keys aggs and meta, never inside that object.
C22_FilterMerged ==
    \A i \in 1..Len(heap) :
        (heap[i].name = "filter" /\ HasKey(heap[i].params, "filter"))
        => FilterShape(heap, dicts, i, Get(heap[i].params, "filter"),
                       ToDict(heap, dicts, i).v)

C22_Witness ==
    \E i \in 1..Len(heap) :
        /\ heap[i].name = "filter"
        /\ HasKey(heap[i].params, "filter") /\ Get(heap[i].params, "filter") = Q1
        /\ HasKey(heap[i].params, "meta")
        /\ Children(heap, dicts, i) # <<>>
        /\ Get(ToDict(heap, dicts, i).v, "filter") = Obj(Q1.v)
        /\ HasKey(ToDict(heap, dicts, i).v, "aggs")
        /\ HasKey(ToDict(heap, dicts, i).v, "meta")
\* build(serialize(n)) for the node heap[i]
Reparse(h, d, i) == A(h, d, ToDict(h, d, i), None, <<>>)

\* the filter nodes whose filter slot holds a sub-query
FilterNodes == {i \in 1..Len(heap) : /\ heap[i].name = "filter"
                                      /\ HasKey(heap[i].params, "filter")}

\* C23 as stated: building from the serialization of a filter node f with
\* sub-query q gives a filter node g that holds q in its filter slot, so g has
\* the kind, the params and the children of f.
C23_ReparseRebuilds ==
    \A i \in FilterNodes :
        \E r \in {Reparse(heap, dicts, i)} :
            /\ r.err = ""
            /\ r.heap[r.ret].name = "filter"
            /\ HasKey(r.heap[r.ret].params, "filter")
            /\ Get(r.heap[r.ret].params, "filter") = Get(heap[i].params, "filter")
            /\ Iter(r.heap, r.dicts, r.ret) = Iter(heap, dicts, i)

\* C23 as amended: building from the serialization of a filter node f with
\* sub-query q gives a new filter node g with the child names of f that
\* holds the fields of serialize(q) as plain parameters of its own and
\* nothing in its filter slot; g serializes like f (when no meta in f's tree
\* is empty), so the sub-query is kept in the wire form only.
C23_ReparseKeepsFields ==
    \A i \in FilterNodes :
        \E r \in {Reparse(heap, dicts, i)} :
            /\ r.err = ""
            /\ r.ret \notin 1..Len(heap)
            /\ r.heap[r.ret].name = "filter"
            /\ ~HasKey(r.heap[r.ret].params, "filter")
            /\ OwnParams(r.heap[r.ret].params) = Get(heap[i].params, "filter").v
            /\ Iter(r.heap, r.dicts, r.ret) = Iter(heap, dicts, i)
            /\ EmptyMeta(heap, dicts, i) = {}
               => DictEq(ToDict(r.heap, r.dicts, r.ret), ToDict(heap, dicts, i))

C23_Witness ==
    \E i \in FilterNodes :
        /\ Get(heap[i].params, "filter") = Q1
        /\ Children(heap, dicts, i) # <<>>
        /\ HasKey(heap[i].params, "meta")
        /\ \E r \in {Reparse(heap, dicts, i)} :
              /\ r.err = ""
              /\ OwnParams(r.heap[r.ret].params) = Q1.v
              /\ Len(Children(r.heap, r.dicts, r.ret)) = Len(Children(heap, dicts, i))
\* the metric and pipeline nodes
Leaves == {i \in 1..Len(heap) : ~IsBucket(heap, i)}

\* C24 as stated: no metric or pipeline node serializes with a children
\* block: its serialization has no aggs key beside the kind tag and none
\* inside the kind tag's own object, also when the node was built from a
\* mapping with an aggs key or with an aggs keyword.
C24_LeafNoAggs ==
    \A i \in Leaves :
        \A w \in {ToDict(heap, dicts, i).v} :
            /\ ~HasKey(w, "aggs")
            /\ ~HasKey(Get(w, heap[i].name).v, "aggs")

\* C24 as amended: a metric or pipeline node never has children and never
\* serializes an aggs key beside its kind tag; but an aggs entry it was built
\* with (a non-empty aggs of the mapping, an aggs keyword) is an ordinary
\* parameter of the node, which serializes it as given inside the kind tag's
\* own object.
C24_LeafAggsInside ==
    \A i \in Leaves :
        \A w \in {ToDict(heap, dicts, i).v} :
            /\ ~HasKey(w, "aggs")
            /\ Children(heap, dicts, i) = <<>>
            /\ HasKey(Get(w, heap[i].name).v, "aggs")
                 <=> HasKey(heap[i].params, "aggs")
            /\ HasKey(heap[i].params, "aggs")
               => /\ Get(heap[i].params, "aggs").t = "obj"
                  /\ Get(Get(w, heap[i].name).v, "aggs")
                       = Get(heap[i].params, "aggs")

C24_Witness ==
    /\ WireBuild /\ last.err = ""
    /\ HasKey(last.inp.v, "aggs") /\ HasKey(last.inp.v, "meta")
    /\ last.ret \in Leaves
    /\ HasKey(Get(ToDict(heap, dicts, last.ret).v, heap[last.ret].name).v, "aggs")
    /\ HasKey(ToDict(heap, dicts, last.ret).v, "meta")
\* the seven kinds the spec lists as field-partitioning
ListedKinds ==
    {"terms", "multi_terms", "rare_terms", "histogram", "date_histogram",
     "auto_date_histogram", "variable_width_histogram"}

\* C25 as stated: result() gives the FieldBucketData view for exactly the
\* seven listed kinds, multi_terms among them, and for no other kind.
C25_SevenKinds ==
    view.node # 0
    => (view.cls = "FieldBucketData" <=> heap[view.node].name \in ListedKinds)

\* C25 as amended: result() gives the FieldBucketData view for exactly the six
\* kinds terms, rare_terms, histogram, date_histogram, auto_date_histogram
\* and variable_width_histogram; multi_terms gets the BucketData view of the
\* generic bucket kinds.
C25_SixKinds ==
    view.node # 0
    => /\ view.cls = "FieldBucketData"
          <=> heap[view.node].name \in ListedKinds \ {"multi_terms"}
       /\ heap[view.node].name = "multi_terms" => view.cls = "BucketData"

C25_Witness ==
    /\ view.node # 0
    /\ heap[view.node].name = "multi_terms"
    /\ view.cls = "BucketData"
    /\ HasKey(view.data.v, "buckets")
    /\ view.err = ""
\* C26: the view result() makes is fixed by the node's kind alone: top_hits
\* gets TopHitsData, as a root and as a child stored under a bucket; every
\* other metric kind and every pipeline kind gets the generic view; every
\* bucket kind outside the field-partitioning list gets BucketData; and any
\* node of the same kind, whatever its params, children and place in the
\* tree, gets the same view class for every payload.
C26_ByKindAlone ==
    view.node # 0
    => \A kind \in {heap[view.node].name} :
          /\ kind = "top_hits" => view.cls = "TopHitsData"
          /\ kind \in (MetricKinds \ {"top_hits"}) \cup PipelineKinds
             => view.cls = "AggResponse"
          /\ kind \in BucketKinds \ ListedKinds => view.cls = "BucketData"
          /\ \A j \in 1..Len(heap), data \in Payloads :
                heap[j].name = kind => Result(heap, j, data).cls = view.cls

C26_Witness ==
    /\ view.node # 0 /\ view.node # 1
    /\ heap[1].name = "nested"
    /\ \E nm \in Names : ChildOf(heap, dicts, 1, nm) = view.node
    /\ heap[view.node].name = "top_hits"
    /\ view.cls = "TopHitsData" /\ view.err = ""
    /\ Len(Children(heap, dicts, 1)) = 2
C28_GetStoresCopy ==
    [][ /\ last'.op = "get" =>
           \A old \in {ChildOf(heap, dicts, last'.recv, last'.name)} :
             GetBucket(old)
             => /\ last'.ret # old
                /\ ChildOf(heap', dicts', last'.recv, last'.name) = last'.ret
                /\ heap'[last'.ret].name = heap[old].name
                /\ nset' = nset
        /\ (/\ AddOn(opened.n) /\ ~opened.wb
            /\ ChildOf(heap, dicts, opened.b, opened.k) = opened.n)
           => /\ ChildOf(heap', dicts', opened.b, opened.k) = opened.n
              /\ Contains(heap', dicts', opened.n, last'.name)
              /\ \A w \in {SubAgg(ToDict(heap', dicts', opened.b), opened.k)} :
                    /\ HasKey(w.v, "aggs")
                    /\ HasKey(Get(w.v, "aggs").v, last'.name)
        /\ (last'.op = "get" /\ last'.err = "" /\ opened'.again)
           => \A c \in opened.added :
                 /\ ChildOf(heap', dicts', last'.ret, c) # 0
                 /\ ChildOf(heap', dicts', last'.ret, c)
                      = ChildOf(heap, dicts, opened.n, c) ]_vars

C28_Witness ==
    /\ last.op = "get" /\ last.err = ""
    /\ opened.again /\ ~opened.wb
    /\ ChildOf(heap, dicts, opened.b, opened.k) = last.ret
    /\ last.ret \notin {opened.o, opened.b}
    /\ \E nm \in Names :
          /\ Contains(heap, dicts, last.ret, nm)
          /\ nm \in AggsKeys(SubAgg(ToDict(heap, dicts, opened.b), opened.k))
\* C29: the chaining anchor (_base) of every bucket node is the node itself,
\* from its construction on, the copies a read makes included, and no
\* operation changes the anchor of an existing node; so metric() and
\* pipeline() on a bucket b store the new leaf under b and return b, the same
\* object, whether b is a root, came from bucket() or came from a read.
C29_AnchorIsSelf ==
    [][ /\ \A i \in 1..Len(heap') :
              heap'[i].base = IF IsBucket(heap', i) THEN i ELSE 0
        /\ \A i \in 1..Len(heap) :
              Len(heap') >= Len(heap) /\ heap'[i].base = heap[i].base
        /\ (last'.op \in {"metric", "pipeline"} /\ last'.err = "")
           => \A leaf \in {ChildOf(heap', dicts', last'.recv, last'.name)} :
                 /\ last'.ret = last'.recv
                 /\ last'.ret = heap'[last'.recv].base
                 /\ leaf # 0 /\ leaf \notin 1..Len(heap)
                 /\ heap'[leaf].name = last'.inp.v ]_vars

C29_Witness ==
    /\ last.op \in {"metric", "pipeline"} /\ last.err = ""
    /\ opened.n # 0 /\ last.recv = opened.n
    /\ opened.o # 0 /\ opened.o # opened.n
    /\ heap[opened.o].base = opened.o
    /\ heap[opened.n].base = opened.n
    /\ last.ret = opened.n
    /\ ChildOf(heap, dicts, opened.b, opened.k) = opened.n
    /\ Contains(heap, dicts, opened.n, last.name)
\* node i, built from the mapping m, holds the reserved entry key of m
\* exactly when that entry is not empty, and serializes it accordingly
ReservedKept(h, d, i, m, key, w) ==
    IF Truthy(PopOf(m, key))
    THEN /\ HasKey(h[i].params, key)
         /\ IF key = "aggs" /\ IsBucket(h, i)
            THEN /\ Iter(h, d, i)
                      = [j \in 1..Len(Get(m, key).v) |-> Get(m, key).v[j][1]]
                 /\ HasKey(w, key)
            ELSE Get(h[i].params, key) = Get(m, key)
         /\ key = "meta" => HasKey(w, key) /\ Get(w, key) = Get(m, key)
    ELSE /\ ~HasKey(h[i].params, key)
         /\ ~HasKey(w, key)
         /\ ~HasKey(Get(w, h[i].name).v, key)
         /\ key = "aggs" => Children(h, d, i) = <<>>

\* C30: a node built from a wire-format mapping has the mapping's aggs and
\* meta entries as parameters exactly when they are not empty: an entry that
\* is there but empty ({}) is dropped, so the node has no children, no meta
\* parameter and no aggs or meta key in its serialization, and a non-empty
\* entry is always put back on the node.
C30_EmptyDropped ==
    (WireBuild /\ last.err = "")
    => \A key \in {"aggs", "meta"} :
          ReservedKept(heap, dicts, last.ret, last.inp.v, key,
                       ToDict(heap, dicts, last.ret).v)

C30_Witness ==
    /\ WireBuild /\ last.err = ""
    /\ HasKey(last.inp.v, "aggs") /\ Get(last.inp.v, "aggs") = Obj(<<>>)
    /\ HasKey(last.inp.v, "meta") /\ Get(last.inp.v, "meta") = Obj(<<>>)
    /\ IsBucket(heap, last.ret)
    /\ Children(heap, dicts, last.ret) = <<>>
    /\ ~HasKey(heap[last.ret].params, "meta")
    /\ Keys(ToDict(heap, dicts, last.ret).v) = {heap[last.ret].name}
====
